---- MODULE Spec2Model ----
(***************************************************************************)
(* One run of scripts/network_ops.py (Cisco IOS, optionally launched by    *)
(* scripts/run_local.py) or of scripts/iosxr_network_ops.py (IOS XR)       *)
(* against a device session that may fail any call.                        *)
(*                                                                         *)
(* The session (netmiko) is the environment: every enable, send_command    *)
(* and send_config_set either returns or raises.  log records every call   *)
(* made on the session, in order, with the function that made it and       *)
(* whether it returned (ok) or raised.                                     *)
(***************************************************************************)
EXTENDS Integers, Sequences, FiniteSets, TLC

\* ---------------------------------------------------------------- bounds
\* The device raises on at most MaxFailures calls of one run.
MaxFailures == 1
\* Longest 'subinterfaces' list of vlan_config.json.
MaxSubifs == 2
\* Longest 'vlans' list and longest 'interfaces' list of vlan_config.json.
MaxVlans == 2
MaxIfaces == 2

\* A key the JSON entry does not have: reading it raises KeyError.
Missing == "<KeyError>"

\* --------------------------------------------------------------- inputs
SubifA ==
  [subinterface |-> "GigabitEthernet0/0/0/0.10", parent_interface |-> "GigabitEthernet0/0/0/0",
   description |-> "USERS", vlan_id |-> "10", ip_address |-> "10.10.10.1",
   subnet_mask |-> "255.255.255.0"]
SubifB ==
  [subinterface |-> "GigabitEthernet0/0/0/1.20", parent_interface |-> "GigabitEthernet0/0/0/1",
   description |-> "SERVERS", vlan_id |-> "20", ip_address |-> "10.10.20.1",
   subnet_mask |-> "255.255.255.0"]
\* SubifA's name again, without its ip_address.
SubifANoIp == [SubifA EXCEPT !.ip_address = Missing]
SubifEntries == {SubifA, SubifB, SubifANoIp}

OspfNet == [network |-> "10.10.0.0", wildcard |-> "0.0.255.255", area |-> "0"]
OspfCfg == [protocol |-> "OSPF", process_id |-> "1", networks |-> <<OspfNet>>]
BgpCfg == [protocol |-> "bgp", process_id |-> "65000", networks |-> <<>>]
\* The 'routing_protocols' lists tried; <<>> stands for a file without
\* the key.
RoutingLists == {<<>>, <<BgpCfg, OspfCfg>>}

VlanOk == [id |-> "10", name |-> "USERS"]
VlanNoName == [id |-> "20", name |-> Missing]
VlanEntries == {VlanOk, VlanNoName}

IfaceOk == [interface |-> "GigabitEthernet0/1", description |-> "Uplink"]
IfaceNoDesc == [interface |-> "GigabitEthernet0/2", description |-> Missing]
IfaceEntries == {IfaceOk, IfaceNoDesc}

SeqsUpTo(S, n) == UNION {[1..k -> S] : k \in 0..n}

\* The 'vlans', 'interfaces' and 'routing_protocols' keys are optional
\* ('x' in config); keys holds the ones present.
IosConfigs ==
  {[keys |-> k, vlans |-> v, interfaces |-> f, subinterfaces |-> <<>>,
    routing_protocols |-> <<>>] :
      k \in SUBSET {"vlans", "interfaces"},
      v \in SeqsUpTo(VlanEntries, MaxVlans),
      f \in SeqsUpTo(IfaceEntries, MaxIfaces)}
XrConfigs ==
  {[keys |-> (IF r = <<>> THEN {} ELSE {"routing_protocols"}), vlans |-> <<>>, interfaces |-> <<>>, subinterfaces |-> s,
    routing_protocols |-> r] :
      s \in SeqsUpTo(SubifEntries, MaxSubifs),
      r \in RoutingLists}
\* A key that is absent has no list.
WellKeyed(c) ==
  /\ ("vlans" \notin c.keys => c.vlans = <<>>)
  /\ ("interfaces" \notin c.keys => c.interfaces = <<>>)
  /\ ("routing_protocols" \notin c.keys => c.routing_protocols = <<>>)

VARIABLES
  script,      \* "ios" (network_ops.py) or "xr" (iosxr_network_ops.py)
  launcher,    \* "direct" or "run_local" (run_local.py runs network_ops.py)
  config,      \* vlan_config.json as loaded
  pc,          \* position in the run
  i,           \* index of the loop the run is in
  configured_interfaces,  \* configure_subinterfaces' set
  session,     \* "none", "open" or "closed"
  log,         \* calls made on the session, in order
  failures,    \* calls that raised so far
  exit_code,   \* -1 while running, then the script's exit status
  completed,   \* the completion message was printed
  report       \* run_local's return value: "none", "success", "failed"

vars == <<script, launcher, config, pc, i, configured_interfaces, session, log,
          failures, exit_code, completed, report>>

\* ------------------------------------------------------------ the device
\* What a call on the session can do: return (TRUE) or raise (FALSE).
Outcomes == IF failures < MaxFailures THEN {TRUE, FALSE} ELSE {TRUE}
Count(ok) == IF ok THEN failures ELSE failures + 1

\* One CLI line: its keyword and its arguments.
Cmd(verb, args) == [verb |-> verb, args |-> args]
\* One call on the session: op is the netmiko method, by the function of
\* the script that called it.
Call(op, by, cmds, ok) == [op |-> op, by |-> by, cmds |-> cmds, ok |-> ok]

Init ==
  /\ script \in {"ios", "xr"}
  /\ launcher \in (IF script = "ios" THEN {"direct", "run_local"} ELSE {"direct"})
  /\ config \in {c \in (IF script = "ios" THEN IosConfigs ELSE XrConfigs) : WellKeyed(c)}
  /\ pc = (IF launcher = "run_local" THEN "validate"
           ELSE IF script = "ios" THEN "test_connectivity" ELSE "load_config")
  /\ i = 1
  /\ configured_interfaces = {}
  /\ session = "none"
  /\ log = <<>>
  /\ failures = 0
  /\ exit_code = -1
  /\ completed = FALSE
  /\ report = "none"


inputs == <<script, launcher, config>>

\* sys.exit(status) outside main's try block: the process ends at once.
\* Under run_local the status goes back to subprocess.run.
Exited == IF launcher = "run_local" THEN "exited" ELSE "done"

\* ------------------------------------------------------------ run_local
\* run_local.py: python -m json.tool configs/vlan_config.json
RunLocalValidate ==
  /\ pc = "validate"
  /\ \E ok \in BOOLEAN :
       IF ok THEN pc' = "deploy" /\ report' = report
             ELSE pc' = "done" /\ report' = "failed"
  /\ UNCHANGED <<inputs, i, configured_interfaces, session, log, failures,
                 exit_code, completed>>

\* run_local.py: subprocess.run(['python', 'network_ops.py'], ...) starts
\* the script, or raises and run_local returns False.
RunLocalDeploy ==
  /\ pc = "deploy"
  /\ \E ok \in BOOLEAN :
       IF ok THEN pc' = "test_connectivity" /\ report' = report
             ELSE pc' = "done" /\ report' = "failed"
  /\ UNCHANGED <<inputs, i, configured_interfaces, session, log, failures,
                 exit_code, completed>>

\* run_local.py: result.returncode == 0 is a successful deployment.
DeploymentResult(returncode) == IF returncode = 0 THEN "success" ELSE "failed"

RunLocalReport ==
  /\ pc = "exited"
  /\ report' = DeploymentResult(exit_code)
  /\ pc' = "done"
  /\ UNCHANGED <<inputs, i, configured_interfaces, session, log, failures,
                 exit_code, completed>>

\* ------------------------------------------------- before the session
\* network_ops.main: if not test_connectivity(host): sys.exit(1)
TestConnectivity ==
  /\ pc = "test_connectivity"
  /\ \E ok \in BOOLEAN :
       IF ok THEN pc' = "load_config" /\ exit_code' = exit_code
             ELSE pc' = Exited /\ exit_code' = 1
  /\ UNCHANGED <<inputs, i, configured_interfaces, session, log, failures,
                 completed, report>>

\* load_config: the parsed file, or sys.exit(1).
LoadConfig ==
  /\ pc = "load_config"
  /\ \E ok \in BOOLEAN :
       IF ok THEN pc' = "connect" /\ exit_code' = exit_code
             ELSE pc' = Exited /\ exit_code' = 1
  /\ UNCHANGED <<inputs, i, configured_interfaces, session, log, failures,
                 completed, report>>

\* connect_to_switch / connect_to_iosxr: ConnectHandler(**device_info)
\* returns the session, or the function prints and calls sys.exit(1).
Connect ==
  /\ pc = "connect"
  /\ \E ok \in BOOLEAN :
       IF ok THEN pc' = "enable" /\ session' = "open" /\ exit_code' = exit_code
             ELSE pc' = Exited /\ session' = session /\ exit_code' = 1
  /\ UNCHANGED <<inputs, i, configured_interfaces, log, failures, completed, report>>

\* ------------------------------------------------ main's try / finally
AfterEnable == IF script = "ios" THEN "ios_show_vlans" ELSE "xr_cleanup_ospf"

\* main: connection.enable(), the first statement of the try block.
Enable ==
  /\ pc = "enable"
  /\ \E ok \in Outcomes :
       /\ log' = Append(log, Call("enable", "main", <<>>, ok))
       /\ failures' = Count(ok)
       /\ pc' = IF ok THEN AfterEnable ELSE "except"
  /\ i' = 1
  /\ UNCHANGED <<inputs, configured_interfaces, session, exit_code, completed, report>>

\* main: the completion message, the last statement of the try block.
Complete ==
  /\ pc = "complete"
  /\ completed' = TRUE
  /\ pc' = "finally"
  /\ UNCHANGED <<inputs, i, configured_interfaces, session, log, failures,
                 exit_code, report>>

\* AfterExcept when disconnect() is the last statement of the try block
\* instead of a finally clause: sys.exit(1) ends the process at once.
AfterExceptNoFinally == Exited

\* main's try statement has a finally clause: the except clause's
\* sys.exit(1) runs it before the process ends.
AfterExcept == "finally"

\* main: except Exception as e: print(...); sys.exit(1).  SystemExit
\* leaves through the finally clause.
Except ==
  /\ pc = "except"
  /\ exit_code' = 1
  /\ pc' = AfterExcept
  /\ UNCHANGED <<inputs, i, configured_interfaces, session, log, failures,
                 completed, report>>

\* The status the process ends with once the finally clause has run.
FinalStatus(pending) == IF pending = -1 THEN 0 ELSE pending

\* main: finally: connection.disconnect()
Finally ==
  /\ pc = "finally"
  /\ log' = Append(log, Call("disconnect", "main", <<>>, TRUE))
  /\ session' = "closed"
  /\ exit_code' = FinalStatus(exit_code)
  /\ pc' = Exited
  /\ UNCHANGED <<inputs, i, configured_interfaces, failures, completed, report>>


\* ------------------------------------------------------- network_ops.py
\* A send_command of one operational command.
Show(by, text, ok) == Call("send_command", by, <<Cmd(text, <<>>)>>, ok)

\* main: show_current_vlans(connection); nothing catches what it raises
\* before main's except clause.
IosShowVlans ==
  /\ pc \in {"ios_show_vlans", "ios_show_vlans_after"}
  /\ \E ok \in Outcomes :
       /\ log' = Append(log, Show("show_current_vlans", "show vlan brief", ok))
       /\ failures' = Count(ok)
       /\ pc' = IF ~ok THEN "except"
                ELSE IF pc = "ios_show_vlans" THEN "ios_show_interfaces"
                ELSE "ios_show_interfaces_after"
  /\ UNCHANGED <<inputs, i, configured_interfaces, session, exit_code, completed, report>>

\* main: show_interface_status(connection)
IosShowInterfaces ==
  /\ pc \in {"ios_show_interfaces", "ios_show_interfaces_after"}
  /\ \E ok \in Outcomes :
       /\ log' = Append(log, Show("show_interface_status", "show interfaces description", ok))
       /\ failures' = Count(ok)
       /\ pc' = IF ~ok THEN "except"
                ELSE IF pc = "ios_show_interfaces" THEN "ios_create_vlans"
                ELSE "complete"
  /\ UNCHANGED <<inputs, i, configured_interfaces, session, exit_code, completed, report>>

\* create_vlans: two commands per VLAN, all VLANs in one list.
VlanCommands(vlans) ==
  [k \in 1..(2 * Len(vlans)) |->
     IF k % 2 = 1 THEN Cmd("vlan", <<vlans[(k + 1) \div 2].id>>)
                  ELSE Cmd("name", <<vlans[k \div 2].name>>)]

\* vlan['id'] or vlan['name'] raises KeyError for some entry.
VlanKeyError(vlans) ==
  \E k \in 1..Len(vlans) : vlans[k].id = Missing \/ vlans[k].name = Missing

\* main: if 'vlans' in config: create_vlans(connection, config['vlans'])
IosCreateVlans ==
  /\ pc = "ios_create_vlans"
  /\ i' = 1
  /\ IF "vlans" \notin config.keys \/ config.vlans = <<>>
       THEN pc' = "ios_update_interfaces" /\ UNCHANGED <<log, failures>>
     ELSE IF VlanKeyError(config.vlans)
       THEN pc' = "except" /\ UNCHANGED <<log, failures>>
     ELSE \E ok \in Outcomes :
            /\ log' = Append(log, Call("send_config_set", "create_vlans",
                                       VlanCommands(config.vlans), ok))
            /\ failures' = Count(ok)
            /\ pc' = IF ok THEN "ios_update_interfaces" ELSE "except"
  /\ UNCHANGED <<inputs, configured_interfaces, session, exit_code, completed, report>>

\* update_interface_descriptions: the two commands of one interface.
InterfaceCommands(interface) ==
  <<Cmd("interface", <<interface.interface>>),
    Cmd("description", <<interface.description>>)>>

InterfaceKeyError(interface) ==
  interface.interface = Missing \/ interface.description = Missing

\* The interfaces main hands to update_interface_descriptions.
IosInterfaces == IF "interfaces" \in config.keys THEN config.interfaces ELSE <<>>

\* update_interface_descriptions: one pass of the loop.
IosUpdateInterface ==
  /\ pc = "ios_update_interfaces"
  /\ i <= Len(IosInterfaces)
  /\ IF InterfaceKeyError(IosInterfaces[i])
       THEN pc' = "except" /\ UNCHANGED <<log, failures, i>>
     ELSE \E ok \in Outcomes :
            /\ log' = Append(log, Call("send_config_set", "update_interface_descriptions",
                                       InterfaceCommands(IosInterfaces[i]), ok))
            /\ failures' = Count(ok)
            /\ pc' = IF ok THEN pc ELSE "except"
            /\ i' = IF ok THEN i + 1 ELSE i
  /\ UNCHANGED <<inputs, configured_interfaces, session, exit_code, completed, report>>

\* update_interface_descriptions returns (or 'interfaces' is not in config).
IosInterfacesDone ==
  /\ pc = "ios_update_interfaces"
  /\ i > Len(IosInterfaces)
  /\ pc' = "ios_save"
  /\ UNCHANGED <<inputs, i, configured_interfaces, session, log, failures,
                 exit_code, completed, report>>

\* main: save_config(connection): connection.send_command("write memory")
IosSaveConfig ==
  /\ pc = "ios_save"
  /\ \E ok \in Outcomes :
       /\ log' = Append(log, Show("save_config", "write memory", ok))
       /\ failures' = Count(ok)
       /\ pc' = IF ok THEN "ios_show_vlans_after" ELSE "except"
  /\ UNCHANGED <<inputs, i, configured_interfaces, session, exit_code, completed, report>>


\* ------------------------------------------------- iosxr_network_ops.py
\* connection.send_command("commit", expect_string=r"#")
Commit(by, ok) == Call("send_command", by, <<Cmd("commit", <<>>)>>, ok)

\* cleanup_existing_configs: the names it removes.
subinterfaces_to_remove ==
  <<"GigabitEthernet0/0/0/0.100", "GigabitEthernet0/0/0/0.400",
    "GigabitEthernet0/0/0/1.200", "GigabitEthernet0/0/0/2.300",
    "GigabitEthernet0/0/0/0.10", "GigabitEthernet0/0/0/1.20",
    "GigabitEthernet0/0/0/2.30", "GigabitEthernet0/0/0/3.40">>

\* OspfRemovalCommands with the "no" left out: the line creates the
\* process instead of removing it.
OspfRemovalCommandsWithoutNo == <<Cmd("router ospf", <<"1">>)>>

\* cleanup_existing_configs: commands = ["no router ospf 1"]
OspfRemovalCommands == <<Cmd("no router ospf", <<"1">>)>>

\* cleanup_existing_configs: commands = [f"no interface {subif}"]
SubifRemovalCommands(subif) == <<Cmd("no interface", <<subif>>)>>

\* main calls cleanup_existing_configs(connection) right after enable();
\* its first try block sends the OSPF removal.
XrCleanupOspf ==
  /\ pc = "xr_cleanup_ospf"
  /\ \E ok \in Outcomes :
       /\ log' = Append(log, Call("send_config_set", "cleanup_existing_configs",
                                  OspfRemovalCommands, ok))
       /\ failures' = Count(ok)
       /\ pc' = IF ok THEN "xr_cleanup_ospf_commit" ELSE "xr_cleanup_subif"
  /\ i' = 1
  /\ UNCHANGED <<inputs, configured_interfaces, session, exit_code, completed, report>>

\* the commit of the OSPF removal; the bare except swallows a failure.
XrCleanupOspfCommit ==
  /\ pc = "xr_cleanup_ospf_commit"
  /\ \E ok \in Outcomes :
       /\ log' = Append(log, Commit("cleanup_existing_configs", ok))
       /\ failures' = Count(ok)
  /\ pc' = "xr_cleanup_subif"
  /\ i' = 1
  /\ UNCHANGED <<inputs, configured_interfaces, session, exit_code, completed, report>>

\* cleanup_existing_configs: the removal of subinterfaces_to_remove[i].
XrCleanupSubif ==
  /\ pc = "xr_cleanup_subif"
  /\ i <= Len(subinterfaces_to_remove)
  /\ \E ok \in Outcomes :
       /\ log' = Append(log, Call("send_config_set", "cleanup_existing_configs",
                                  SubifRemovalCommands(subinterfaces_to_remove[i]), ok))
       /\ failures' = Count(ok)
       /\ pc' = IF ok THEN "xr_cleanup_subif_commit" ELSE pc
       /\ i' = IF ok THEN i ELSE i + 1
  /\ UNCHANGED <<inputs, configured_interfaces, session, exit_code, completed, report>>

\* the commit of that removal; except Exception swallows a failure.
XrCleanupSubifCommit ==
  /\ pc = "xr_cleanup_subif_commit"
  /\ \E ok \in Outcomes :
       /\ log' = Append(log, Commit("cleanup_existing_configs", ok))
       /\ failures' = Count(ok)
  /\ pc' = "xr_cleanup_subif"
  /\ i' = i + 1
  /\ UNCHANGED <<inputs, configured_interfaces, session, exit_code, completed, report>>

\* cleanup_existing_configs returns.
XrCleanupDone ==
  /\ pc = "xr_cleanup_subif"
  /\ i > Len(subinterfaces_to_remove)
  /\ pc' = "xr_initial_read"
  /\ UNCHANGED <<inputs, i, configured_interfaces, session, log, failures,
                 exit_code, completed, report>>

\* main: the initial "show interfaces brief"; the bare except prints and
\* the run continues.
XrInitialRead ==
  /\ pc = "xr_initial_read"
  /\ \E ok \in Outcomes :
       /\ log' = Append(log, Show("main", "show interfaces brief", ok))
       /\ failures' = Count(ok)
  /\ pc' = "xr_subif"
  /\ i' = 1
  /\ UNCHANGED <<inputs, configured_interfaces, session, exit_code, completed, report>>


\* SubifCommands with the address assigned before the encapsulation.
SubifCommandsAddressFirst(subif) ==
  <<Cmd("interface", <<subif.parent_interface>>),
    Cmd("no shutdown", <<>>),
    Cmd("interface", <<subif.subinterface>>),
    Cmd("description", <<subif.description>>),
    Cmd("ipv4 address", <<subif.ip_address, subif.subnet_mask>>),
    Cmd("encapsulation dot1q", <<subif.vlan_id>>),
    Cmd("no shutdown", <<>>)>>

\* configure_subinterfaces: the commands list of one entry.
SubifCommands(subif) ==
  <<Cmd("interface", <<subif.parent_interface>>),
    Cmd("no shutdown", <<>>),
    Cmd("interface", <<subif.subinterface>>),
    Cmd("description", <<subif.description>>),
    Cmd("encapsulation dot1q", <<subif.vlan_id>>),
    Cmd("ipv4 address", <<subif.ip_address, subif.subnet_mask>>),
    Cmd("no shutdown", <<>>)>>

\* configure_subinterfaces: if subif['subinterface'] in configured_interfaces
IsDuplicate(subif, configured) == subif.subinterface \in configured

\* Building the commands list (or the print after it) raises KeyError.
SubifKeyError(subif) ==
  \E f \in {"parent_interface", "subinterface", "description", "vlan_id",
            "ip_address", "subnet_mask"} : subif[f] = Missing

\* AddConfigured when the add is left out.
AddConfiguredForgets(configured, name) == configured

\* configure_subinterfaces: configured_interfaces.add(subif['subinterface']),
\* reached when send_config_set and the commit both returned.
AddConfigured(configured, name) == configured \cup {name}

Subifs == config.subinterfaces

\* configure_subinterfaces: the entry names an interface already in
\* configured_interfaces: continue.
XrSubifSkipDuplicate ==
  /\ pc = "xr_subif"
  /\ i <= Len(Subifs)
  /\ Subifs[i].subinterface # Missing
  /\ IsDuplicate(Subifs[i], configured_interfaces)
  /\ i' = i + 1
  /\ UNCHANGED <<inputs, pc, configured_interfaces, session, log, failures,
                 exit_code, completed, report>>

\* configure_subinterfaces: a key of the entry is missing.  The lookups
\* are outside the try block, so the KeyError reaches main's except clause.
XrSubifKeyError ==
  /\ pc = "xr_subif"
  /\ i <= Len(Subifs)
  /\ \/ Subifs[i].subinterface = Missing
     \/ ~IsDuplicate(Subifs[i], configured_interfaces) /\ SubifKeyError(Subifs[i])
  /\ pc' = "except"
  /\ UNCHANGED <<inputs, i, configured_interfaces, session, log, failures,
                 exit_code, completed, report>>

\* configure_subinterfaces: connection.send_config_set(commands); a
\* failure is printed and the loop goes on to the next entry.
XrSubifSend ==
  /\ pc = "xr_subif"
  /\ i <= Len(Subifs)
  /\ ~SubifKeyError(Subifs[i])
  /\ ~IsDuplicate(Subifs[i], configured_interfaces)
  /\ \E ok \in Outcomes :
       /\ log' = Append(log, Call("send_config_set", "configure_subinterfaces",
                                  SubifCommands(Subifs[i]), ok))
       /\ failures' = Count(ok)
       /\ pc' = IF ok THEN "xr_subif_commit" ELSE pc
       /\ i' = IF ok THEN i ELSE i + 1
  /\ UNCHANGED <<inputs, configured_interfaces, session, exit_code, completed, report>>

\* configure_subinterfaces: the commit of the entry's batch, then
\* configured_interfaces.add(...) when it returned.
XrSubifCommit ==
  /\ pc = "xr_subif_commit"
  /\ \E ok \in Outcomes :
       /\ log' = Append(log, Commit("configure_subinterfaces", ok))
       /\ failures' = Count(ok)
       /\ configured_interfaces' =
            IF ok THEN AddConfigured(configured_interfaces, Subifs[i].subinterface)
                  ELSE configured_interfaces
  /\ pc' = "xr_subif"
  /\ i' = i + 1
  /\ UNCHANGED <<inputs, session, exit_code, completed, report>>

\* configure_subinterfaces returns.
XrSubifsDone ==
  /\ pc = "xr_subif"
  /\ i > Len(Subifs)
  /\ pc' = "xr_routing"
  /\ i' = 1
  /\ UNCHANGED <<inputs, configured_interfaces, session, log, failures,
                 exit_code, completed, report>>

\* str.lower() on the protocol names of the inputs.
Lower(s) == IF s = "OSPF" THEN "ospf" ELSE s

\* configure_routing_protocols: the router ospf line, then one network
\* line per entry of 'networks'.
OspfCommands(routing_config) ==
  <<Cmd("router ospf", <<routing_config.process_id>>)>> \o
  [k \in 1..Len(routing_config.networks) |->
     Cmd("network", <<routing_config.networks[k].network,
                      routing_config.networks[k].wildcard,
                      routing_config.networks[k].area>>)]

\* The list main hands to configure_routing_protocols, if any.
RoutingConfigs ==
  IF "routing_protocols" \in config.keys THEN config.routing_protocols ELSE <<>>

\* configure_routing_protocols: an entry whose protocol is not ospf.
XrRoutingSkip ==
  /\ pc = "xr_routing"
  /\ i <= Len(RoutingConfigs)
  /\ Lower(RoutingConfigs[i].protocol) # "ospf"
  /\ i' = i + 1
  /\ UNCHANGED <<inputs, pc, configured_interfaces, session, log, failures,
                 exit_code, completed, report>>

\* configure_routing_protocols: send_config_set of the OSPF commands.
XrOspfSend ==
  /\ pc = "xr_routing"
  /\ i <= Len(RoutingConfigs)
  /\ Lower(RoutingConfigs[i].protocol) = "ospf"
  /\ \E ok \in Outcomes :
       /\ log' = Append(log, Call("send_config_set", "configure_routing_protocols",
                                  OspfCommands(RoutingConfigs[i]), ok))
       /\ failures' = Count(ok)
       /\ pc' = IF ok THEN "xr_ospf_commit" ELSE pc
       /\ i' = IF ok THEN i ELSE i + 1
  /\ UNCHANGED <<inputs, configured_interfaces, session, exit_code, completed, report>>

\* configure_routing_protocols: the commit of the OSPF commands.
XrOspfCommit ==
  /\ pc = "xr_ospf_commit"
  /\ \E ok \in Outcomes :
       /\ log' = Append(log, Commit("configure_routing_protocols", ok))
       /\ failures' = Count(ok)
  /\ pc' = "xr_routing"
  /\ i' = i + 1
  /\ UNCHANGED <<inputs, configured_interfaces, session, exit_code, completed, report>>

\* configure_routing_protocols returns ('routing_protocols' absent, empty
\* or exhausted).
XrRoutingDone ==
  /\ pc = "xr_routing"
  /\ i > Len(RoutingConfigs)
  /\ pc' = "xr_verify"
  /\ i' = 1
  /\ UNCHANGED <<inputs, configured_interfaces, session, log, failures,
                 exit_code, completed, report>>


\* verify_iosxr_configuration: the show commands, in order.
VerifyShows ==
  <<"show interfaces brief", "show running-config interface",
    "show ipv4 interface brief", "show ospf interface brief", "show route ipv4">>

\* The shows whose except clause sends the command again, without
\* expect_string; the OSPF show's except clause only prints.
HasFallback(text) == text # "show ospf interface brief"

\* Where verify_iosxr_configuration goes after show number k.
AfterShow(k) == IF k < Len(VerifyShows) THEN "xr_verify" ELSE "xr_save_commit"

\* verify_iosxr_configuration: the first attempt of show number i.
XrVerifyShow ==
  /\ pc = "xr_verify"
  /\ \E ok \in Outcomes :
       /\ log' = Append(log, Show("verify_iosxr_configuration", VerifyShows[i], ok))
       /\ failures' = Count(ok)
       /\ IF ~ok /\ HasFallback(VerifyShows[i])
            THEN pc' = "xr_verify_fallback" /\ i' = i
            ELSE pc' = AfterShow(i) /\ i' = i + 1
  /\ UNCHANGED <<inputs, configured_interfaces, session, exit_code, completed, report>>

\* verify_iosxr_configuration: the second attempt, in the except clause.
\* When it raises too, the outer except prints and the function returns.
XrVerifyFallback ==
  /\ pc = "xr_verify_fallback"
  /\ \E ok \in Outcomes :
       /\ log' = Append(log, Show("verify_iosxr_configuration", VerifyShows[i], ok))
       /\ failures' = Count(ok)
       /\ pc' = IF ok THEN AfterShow(i) ELSE "xr_save_commit"
  /\ i' = i + 1
  /\ UNCHANGED <<inputs, configured_interfaces, session, exit_code, completed, report>>

\* save_iosxr_config: send_command("commit"); a failure skips the admin
\* save and is printed as a note.
XrSaveCommit ==
  /\ pc = "xr_save_commit"
  /\ \E ok \in Outcomes :
       /\ log' = Append(log, Commit("save_iosxr_config", ok))
       /\ failures' = Count(ok)
       /\ pc' = IF ok THEN "xr_save_admin" ELSE "complete"
  /\ UNCHANGED <<inputs, i, configured_interfaces, session, exit_code, completed, report>>

\* save_iosxr_config: admin save running-config startup-config; the bare
\* except prints.
XrSaveAdmin ==
  /\ pc = "xr_save_admin"
  /\ \E ok \in Outcomes :
       /\ log' = Append(log, Show("save_iosxr_config",
                                  "admin save running-config startup-config", ok))
       /\ failures' = Count(ok)
  /\ pc' = "complete"
  /\ UNCHANGED <<inputs, i, configured_interfaces, session, exit_code, completed, report>>

\* ------------------------------------------------------ specification
Next ==
  \/ RunLocalValidate \/ RunLocalDeploy \/ RunLocalReport
  \/ TestConnectivity \/ LoadConfig \/ Connect
  \/ Enable \/ Complete \/ Except \/ Finally
  \/ IosShowVlans \/ IosShowInterfaces \/ IosCreateVlans
  \/ IosUpdateInterface \/ IosInterfacesDone \/ IosSaveConfig
  \/ XrCleanupOspf \/ XrCleanupOspfCommit \/ XrCleanupSubif
  \/ XrCleanupSubifCommit \/ XrCleanupDone \/ XrInitialRead
  \/ XrSubifSkipDuplicate \/ XrSubifKeyError \/ XrSubifSend \/ XrSubifCommit
  \/ XrSubifsDone \/ XrRoutingSkip \/ XrOspfSend \/ XrOspfCommit \/ XrRoutingDone
  \/ XrVerifyShow \/ XrVerifyFallback \/ XrSaveCommit \/ XrSaveAdmin

Spec == Init /\ [][Next]_vars

\* The interpreter runs the script's next statement: a run never stops
\* short of its exit of its own accord.
FairSpec == Spec /\ WF_vars(Next)


\* ----------------------------------------------------------- the claims
Calls == 1..Len(log)

\* The send_config_set calls of function by.
Batches(by) == {j \in Calls : log[j].op = "send_config_set" /\ log[j].by = by}
SubifBatches == Batches("configure_subinterfaces")

\* C1: every batch configure_subinterfaces sends is, for one entry of the
\* input, exactly: select the parent interface, no shutdown, create the
\* subinterface, description, encapsulation, IPv4 address, no shutdown, in
\* this order; so the encapsulation line precedes the address line.
C1_SubifBatchOrder ==
  \A j \in SubifBatches :
    \E k \in 1..Len(Subifs) :
      LET e == Subifs[k]
          c == log[j].cmds
      IN /\ Len(c) = 7
         /\ c[1] = [verb |-> "interface", args |-> <<e.parent_interface>>]
         /\ c[2] = [verb |-> "no shutdown", args |-> <<>>]
         /\ c[3] = [verb |-> "interface", args |-> <<e.subinterface>>]
         /\ c[4] = [verb |-> "description", args |-> <<e.description>>]
         /\ c[5] = [verb |-> "encapsulation dot1q", args |-> <<e.vlan_id>>]
         /\ c[6] = [verb |-> "ipv4 address", args |-> <<e.ip_address, e.subnet_mask>>]
         /\ c[7] = [verb |-> "no shutdown", args |-> <<>>]
         /\ \A a, b \in 1..Len(c) :
              c[a].verb = "encapsulation dot1q" /\ c[b].verb = "ipv4 address" => a < b

\* Two different entries have had their batches sent and accepted.
C1_Witness ==
  \E j, k \in SubifBatches :
    /\ j < k /\ log[j].ok /\ log[k].ok
    /\ log[j].cmds[3] # log[k].cmds[3]


\* Every entry of the input has all its keys.
WellFormedConfig ==
  /\ ~VlanKeyError(config.vlans)
  /\ \A k \in 1..Len(config.interfaces) : ~InterfaceKeyError(config.interfaces[k])
  /\ \A k \in 1..Len(Subifs) : ~SubifKeyError(Subifs[k])

\* Function by has sent the batch cmds.
Sent(by, cmds) == \E j \in Batches(by) : log[j].cmds = cmds

\* The name of the subinterface a configure_subinterfaces batch creates.
BatchName(j) == log[j].cmds[3].args[1]

\* Call j is a batch the device rejected: its send_config_set raised, or
\* the commit that follows it did.
Rejected(j) ==
  \/ ~log[j].ok
  \/ /\ j + 1 \in Calls
     /\ log[j + 1].by = log[j].by /\ log[j + 1].op = "send_command" /\ ~log[j + 1].ok

\* C2: when the device rejects the batch of one entity, the batches of the
\* unrelated entities that come later in the run are still sent: after a
\* rejected VLAN batch every interface-description batch is sent
\* (network_ops), and after a rejected subinterface batch the batches of
\* the other subinterfaces and the OSPF batch are sent (IOS XR).
C2_LaterBatchesStillSent ==
  (pc = "done" /\ WellFormedConfig) =>
    /\ (\E j \in Batches("create_vlans") : Rejected(j)) =>
         \A k \in 1..Len(IosInterfaces) :
           Sent("update_interface_descriptions", InterfaceCommands(IosInterfaces[k]))
    /\ \A j \in SubifBatches : Rejected(j) =>
         /\ \A k \in 1..Len(Subifs) :
              Subifs[k].subinterface # BatchName(j) =>
                Sent("configure_subinterfaces", SubifCommands(Subifs[k]))
         /\ \A k \in 1..Len(RoutingConfigs) :
              Lower(RoutingConfigs[k].protocol) = "ospf" =>
                Sent("configure_routing_protocols", OspfCommands(RoutingConfigs[k]))

\* The disconnect calls made on the session.
Disconnects == {j \in Calls : log[j].op = "disconnect"}

\* At most one disconnect, nothing after it, nothing without a session, and
\* a run that opened a session has disconnected when it ends.
C3_Safety ==
  /\ Cardinality(Disconnects) <= 1
  /\ \A j \in Disconnects : j = Len(log)
  /\ session = "none" => log = <<>>
  /\ (pc = "done" /\ session # "none") => Cardinality(Disconnects) = 1

\* C3: every run ends, and a run that opened the session has by then,
\* whatever failed, called disconnect on it exactly once, with nothing
\* sent after it; a run whose connection attempt fails ends having sent
\* nothing.
C3_DisconnectExactlyOnce == []C3_Safety /\ <>(pc = "done")

\* A run in which a call raised has ended with its one disconnect last.
C3_Witness ==
  /\ pc = "done" /\ exit_code = 1
  /\ \E j \in Calls : ~log[j].ok
  /\ log[Len(log)].op = "disconnect"


\* A VLAN, subinterface or OSPF batch the device rejected.
BatchFailed ==
  \E by \in {"create_vlans", "configure_subinterfaces", "configure_routing_protocols"} :
    \E j \in Batches(by) : Rejected(j)

\* C4: a run ends in the successful outcome (completion message, exit
\* status 0, a successful deployment for run_local) only if the device
\* accepted every batch it was sent; a rejected VLAN, subinterface or OSPF
\* batch makes the run end failed.
C4_SuccessOnlyIfAllAccepted ==
  (pc = "done" /\ BatchFailed) =>
    /\ ~completed
    /\ exit_code = 1
    /\ report # "success"

\* The calls of the persistence step.
SaveCalls == {j \in Calls : log[j].by \in {"save_config", "save_iosxr_config"}}

\* C5: persistence is attempted once per run, and a persistence command
\* that fails is a warning only: the run does not end failed, and goes on
\* through its remaining steps to the disconnect.
C5_PersistenceFailureIsWarning ==
  /\ \A j, k \in SaveCalls : j # k => log[j].cmds # log[k].cmds
  /\ (pc = "done" /\ \E j \in SaveCalls : ~log[j].ok) =>
       /\ exit_code = 0
       /\ completed
       /\ Disconnects # {}

\* A read-only show command.
IsRead(c) ==
  /\ c.op = "send_command"
  /\ c.by \in {"main", "show_current_vlans", "show_interface_status",
               "verify_iosxr_configuration"}
\* A call that changes the device's configuration.
IsChange(c) == c.op = "send_config_set"

\* C6: in a run without a fatal error the phases come in the order
\* connect, read, apply, verify, persist, disconnect: no configuration
\* change (cleanup removals included) is sent before the initial read, and
\* no read comes after the persistence command.
C6_PhaseOrder ==
  completed =>
    /\ \A j \in Calls : IsChange(log[j]) => \E k \in 1..(j - 1) : IsRead(log[k])
    /\ \A j \in SaveCalls : \A k \in Calls : IsRead(log[k]) => k < j

\* How often a show command was issued.
Issued(text) ==
  Cardinality({j \in Calls : IsRead(log[j]) /\ log[j].cmds[1].verb = text})

\* C7: a show command that fails does not abort the run and does not
\* suppress the other reads: with a well-formed input and no other
\* failure, every show of both read phases is issued and the run completes.
C7_ReadFailureContained ==
  (/\ pc = "done" /\ session # "none" /\ WellFormedConfig
   /\ failures = 1
   /\ \A j \in Calls : ~log[j].ok => IsRead(log[j])) =>
    /\ completed
    /\ script = "ios" =>
         Issued("show vlan brief") = 2 /\ Issued("show interfaces description") = 2
    /\ script = "xr" =>
         \A k \in 1..Len(VerifyShows) : Issued(VerifyShows[k]) >= 1

\* The commands create_vlans sends hold the two lines of vlan.
VlanSent(vlan) ==
  \E j \in Batches("create_vlans") :
    \E k \in 1..(Len(log[j].cmds) - 1) :
      /\ log[j].cmds[k] = [verb |-> "vlan", args |-> <<vlan.id>>]
      /\ log[j].cmds[k + 1] = [verb |-> "name", args |-> <<vlan.name>>]

\* C8: an entity of the input that lacks a required key fails alone: when
\* the device raises nothing, every well-formed entity is still applied
\* and the run completes.
C8_MalformedEntityContained ==
  (pc = "done" /\ session # "none" /\ failures = 0) =>
    /\ completed
    /\ \A k \in 1..Len(Subifs) :
         ~SubifKeyError(Subifs[k]) => Sent("configure_subinterfaces", SubifCommands(Subifs[k]))
    /\ \A k \in 1..Len(config.vlans) :
         ~VlanKeyError(<<config.vlans[k]>>) => VlanSent(config.vlans[k])
    /\ \A k \in 1..Len(IosInterfaces) :
         ~InterfaceKeyError(IosInterfaces[k]) =>
           Sent("update_interface_descriptions", InterfaceCommands(IosInterfaces[k]))

\* A line that removes an entity from the device.
IsRemoval(cmd) == cmd.verb \in {"no interface", "no router ospf"}

\* C9: the scripts take no opt-in to exclusive management of any entity
\* type, so no run sends a removal command.
C9_NoRemovalWithoutOptIn ==
  \A j \in Calls : \A k \in 1..Len(log[j].cmds) : ~IsRemoval(log[j].cmds[k])

Accepted(j) ==
  /\ log[j].ok
  /\ j + 1 \in Calls
  /\ log[j + 1].by = log[j].by /\ log[j + 1].op = "send_command" /\ log[j + 1].ok

ConfigBatches == {j \in Calls : log[j].op = "send_config_set" /\ log[j].cmds # <<>>}

\* What a configuration batch does, read off its first line.
Kind(j) ==
  LET verb == log[j].cmds[1].verb
  IN CASE verb = "vlan" -> "vlan_creation"
       [] verb = "interface" -> "interface_change"
       [] verb = "router ospf" -> "ospf_change"
       [] verb = "no router ospf" -> "ospf_removal"
       [] verb = "no interface" -> "interface_removal"
       [] OTHER -> "other"

Removals == {"ospf_removal", "interface_removal"}
Creations == {"vlan_creation", "interface_change", "ospf_change"}

\* C11: configuration batches go out in a fixed cross-type order: every
\* VLAN creation before any interface update, every interface or
\* subinterface change before any OSPF change, the OSPF process removal
\* before any subinterface removal, and every removal before any creation.
C11_CrossTypeOrder ==
  LET Of(kinds) == {j \in ConfigBatches : Kind(j) \in kinds}
      Before(S, T) == \A j \in S : \A k \in T : j < k
  IN /\ Before(Of({"vlan_creation"}), Of({"interface_change"}))
     /\ Before(Of({"interface_change"}), Of({"ospf_change"}))
     /\ Before(Of({"ospf_removal"}), Of({"interface_removal"}))
     /\ Before(Of(Removals), Of(Creations))

\* A finished run that sent removals of both kinds, a subinterface batch
\* and an OSPF batch.
C11_Witness ==
  /\ pc = "done"
  /\ \A kind \in {"ospf_removal", "interface_removal", "interface_change", "ospf_change"} :
       \E j \in ConfigBatches : Kind(j) = kind

====
